---- MODULE Spec2Model ----
(***************************************************************************)
(* Model of src/main.py: log returns, portfolio_performance, the Monte     *)
(* Carlo pass simulate_portfolios, and optimize_portfolio with the report  *)
(* of the main flow.                                                       *)
(*                                                                         *)
(* Numbers are binary floating-point values with a significand of Prec     *)
(* bits, rounded to nearest-even after every operation, with NaN and the   *)
(* two infinities (numpy's float64 with a narrower significand and an      *)
(* unbounded exponent).  A finite value is m * 2^e with m odd, or zero.    *)
(* Zero carries no sign: every sum of the code starts from +0.0, so the    *)
(* code never divides by -0.0.                                             *)
(***************************************************************************)
EXTENDS Integers, Sequences, FiniteSets

\* ------------------------------------------------------------------ bounds
Prec == 13          \* bits of significand kept by every operation
MaxTrials == 2      \* largest num_portfolios passed to simulate_portfolios
RandLevels == 3     \* np.random.random() yields k / RandLevels, k < RandLevels
GenBits == 4        \* the generator has 2^GenBits states, one full cycle
MaxAmbient == 2     \* numbers other code draws between a seeding and a run
MaxSeed == 1        \* seeds 0..MaxSeed handed to np.random.seed
MaxRuns == 2        \* sampler runs followed in the reproducibility check
WeightGrid == 4     \* weight vectors k / WeightGrid fed to portfolio_performance
SolverGrid == 2     \* solver iterates have coordinates k / SolverGrid

\* ------------------------------------------------------------ program constants
NUM_TRADING_DAYS == 252
NUM_PORTFOLIOS == 10000

\* ------------------------------------------------------------------ floats
NaN == [k |-> "nan", m |-> 0, e |-> 0]
Inf(s) == [k |-> "inf", m |-> s, e |-> 0]
Zero == [k |-> "fin", m |-> 0, e |-> 0]

Abs(n) == IF n < 0 THEN -n ELSE n
Sgn(n) == IF n < 0 THEN -1 ELSE IF n > 0 THEN 1 ELSE 0

RECURSIVE BitLen(_)
BitLen(a) == IF a = 0 THEN 0 ELSE 1 + BitLen(a \div 2)

\* The finite value n * 2^e in its unique form (odd significand).
RECURSIVE Canon(_, _)
Canon(n, e) ==
    IF n = 0 THEN Zero
    ELSE IF n % 2 = 0 THEN Canon(n \div 2, e + 1)
    ELSE [k |-> "fin", m |-> n, e |-> e]

\* n * 2^e rounded to Prec significant bits, ties to even.
Round(n, e) ==
    LET a == Abs(n)
        sh == BitLen(a) - Prec
    IN  IF sh <= 0 THEN Canon(n, e)
        ELSE LET q == a \div (2 ^ sh)
                 r == a % (2 ^ sh)
                 h == 2 ^ (sh - 1)
                 up == r > h \/ (r = h /\ q % 2 = 1)
             IN  Canon(Sgn(n) * (IF up THEN q + 1 ELSE q), e + sh)

Float(n) == Round(n, 0)

FNeg(a) == [a EXCEPT !.m = -a.m]

FAdd(a, b) ==
    IF a.k = "nan" \/ b.k = "nan" THEN NaN
    ELSE IF a.k = "inf" THEN (IF b.k = "inf" /\ b.m # a.m THEN NaN ELSE a)
    ELSE IF b.k = "inf" THEN b
    ELSE IF a.m = 0 THEN b
    ELSE IF b.m = 0 THEN a
    ELSE LET hi == IF a.e >= b.e THEN a ELSE b
             lo == IF a.e >= b.e THEN b ELSE a
             gap == hi.e - lo.e
         IN  \* lo lies below a quarter of hi's last place: the sum rounds to hi
             IF BitLen(Abs(hi.m)) + gap >= 30 THEN hi
             ELSE Round(hi.m * (2 ^ gap) + lo.m, lo.e)

FSub(a, b) == FAdd(a, FNeg(b))

FMul(a, b) ==
    IF a.k = "nan" \/ b.k = "nan" THEN NaN
    ELSE IF a.k = "inf" \/ b.k = "inf"
         THEN (IF a.m = 0 \/ b.m = 0 THEN NaN ELSE Inf(Sgn(a.m) * Sgn(b.m)))
    ELSE Round(a.m * b.m, a.e + b.e)

\* numpy float64 division: x/0 is +-inf, 0/0 is nan (a RuntimeWarning, no raise).
FDiv(a, b) ==
    IF a.k = "nan" \/ b.k = "nan" THEN NaN
    ELSE IF a.k = "inf"
         THEN (IF b.k = "inf" THEN NaN ELSE Inf(a.m * (IF b.m < 0 THEN -1 ELSE 1)))
    ELSE IF b.k = "inf" THEN Zero
    ELSE IF b.m = 0 THEN (IF a.m = 0 THEN NaN ELSE Inf(Sgn(a.m)))
    ELSE IF a.m = 0 THEN Zero
    ELSE LET n == Abs(a.m)
             d == Abs(b.m)
             sc == Prec + 2 + BitLen(d) - BitLen(n)
             q == (n * (2 ^ sc)) \div d
             sticky == IF (n * (2 ^ sc)) % d = 0 THEN 0 ELSE 1
         IN  Round(Sgn(a.m) * Sgn(b.m) * (2 * q + sticky), a.e - b.e - sc - 1)

RECURSIVE ISqrtIn(_, _, _)
ISqrtIn(n, lo, hi) ==
    IF lo = hi THEN lo
    ELSE LET mid == (lo + hi + 1) \div 2
         IN  IF mid * mid <= n THEN ISqrtIn(n, mid, hi) ELSE ISqrtIn(n, lo, mid - 1)

ISqrt(n) == ISqrtIn(n, 0, 2 ^ 15)

\* np.sqrt: nan for a negative argument (a RuntimeWarning, no raise).
FSqrt(a) ==
    IF a.k = "nan" THEN NaN
    ELSE IF a.k = "inf" THEN (IF a.m > 0 THEN a ELSE NaN)
    ELSE IF a.m < 0 THEN NaN
    ELSE IF a.m = 0 THEN Zero
    ELSE LET s0 == 2 * Prec + 1 - BitLen(a.m)
             sc == IF (a.e - s0) % 2 = 0 THEN s0 ELSE s0 + 1
             n == a.m * (2 ^ sc)
             s == ISqrt(n)
             sticky == IF s * s = n THEN 0 ELSE 1
         IN  Round(2 * s + sticky, ((a.e - sc) \div 2) - 1)

IsNaN(a) == a.k = "nan"
\* a <= b on float64: false when either is nan, true for equal infinities.
FLe(a, b) ==
    /\ a.k # "nan" /\ b.k # "nan"
    /\ (a = b \/ LET d == FSub(a, b) IN d.m < 0)

\* ------------------------------------------------------------------ tables
\* A DataFrame is a sequence of columns (one per asset), each a sequence of
\* row values: Len(df) is len(df.columns).
NumRows(df) == IF df = <<>> THEN 0 ELSE Len(df[1])

\* np.sum over a one-dimensional array: left to right from 0.0.
RECURSIVE FSum(_)
FSum(v) == IF v = <<>> THEN Zero ELSE FAdd(FSum(SubSeq(v, 1, Len(v) - 1)), v[Len(v)])

\* Series.sum(), which np.sum of a pandas Series dispatches to: nan entries
\* are skipped (skipna), so they count as 0.0.
NanSum(v) == FSum([j \in 1..Len(v) |-> IF IsNaN(v[j]) THEN Zero ELSE v[j]])

\* np.dot of two vectors.
Dot(a, b) == FSum([j \in 1..Len(a) |-> FMul(a[j], b[j])])

\* DataFrame.mean(): per column, sum / count (nan for no rows).
Mean(col) == FDiv(FSum(col), Float(Len(col)))

\* DataFrame.cov(): np.cov with ddof = 1.  The columns are centred, the
\* cross products summed and multiplied by 1 / (rows - 1); with one row the
\* factor is 1 / 0.0 = inf and every entry is 0 * inf = nan.
Cov(df) ==
    LET T == NumRows(df)
        fact == IF T - 1 <= 0 THEN 0 ELSE T - 1
        inv == FDiv(Float(1), Float(fact))
        X == [j \in 1..Len(df) |-> [t \in 1..T |-> FSub(df[j][t], Mean(df[j]))]]
    IN  [j \in 1..Len(df) |-> [c \in 1..Len(df) |-> FMul(Dot(X[j], X[c]), inv)]]

\* A price table holds prices exp(L) for integer L and stores L, so that the
\* log of a price ratio is the difference of two entries.  data.shift(1)
\* leaves the first row without a predecessor: its ratio is nan.
LogRatio(col, t) == IF t = 1 THEN NaN ELSE Float(col[t] - col[t - 1])

\* dropna(): the rows (in order) none of whose entries is nan.
RECURSIVE KeptRows(_, _)
KeptRows(df, t) ==
    IF t = 0 THEN <<>>
    ELSE LET rest == KeptRows(df, t - 1)
         IN  IF \E j \in 1..Len(df) : IsNaN(df[j][t]) THEN rest ELSE Append(rest, t)

dropna(df) ==
    LET keep == KeptRows(df, NumRows(df))
    IN  [j \in 1..Len(df) |-> [r \in 1..Len(keep) |-> df[j][keep[r]]]]

compute_log_returns(data) ==
    dropna([j \in 1..Len(data) |-> [t \in 1..Len(data[j]) |-> LogRatio(data[j], t)]])

\* ------------------------------------------------------------------ statistics
\* The radicand of the volatility: weights . ((cov * 252) . weights).
QuadForm(weights, rets) ==
    LET C == Cov(rets)
        A == [j \in 1..Len(C) |->
                [c \in 1..Len(C) |-> FMul(C[j][c], Float(NUM_TRADING_DAYS))]]
        Aw == [j \in 1..Len(A) |-> Dot(A[j], weights)]
    IN  Dot(weights, Aw)

\* The tuple (mean_return, volatility, sharpe_ratio).  weights * returns.mean()
\* is a Series, np.dot of the covariance frame and the weights an ndarray.
portfolio_performance(weights, rets) ==
    LET mean_return ==
            FMul(NanSum([j \in 1..Len(weights) |-> FMul(weights[j], Mean(rets[j]))]),
                 Float(NUM_TRADING_DAYS))
        volatility == FSqrt(QuadForm(weights, rets))
        sharpe_ratio == FDiv(mean_return, volatility)
    IN  <<mean_return, volatility, sharpe_ratio>>

\* -portfolio_performance(weights, returns)[2]
neg_sharpe(weights, rets) ==
    CHOOSE v \in {FNeg(triple[3]) : triple \in {portfolio_performance(weights, rets)}} : TRUE

\* ------------------------------------------------------------------ sampling
\* The global generator behind np.random (a Mersenne Twister).  x is its
\* internal state, stepped once for every number drawn; drawn counts the
\* numbers drawn since the state was set.  The step is a congruence of full
\* period GenPeriod and no flow draws GenPeriod numbers, so the generator
\* never comes back to a state it has left.
GenPeriod == 2 ^ GenBits

GenStep(x) == (5 * x + 3) % GenPeriod

RECURSIVE GenStepN(_, _)
GenStepN(x, n) == IF n = 0 THEN x ELSE GenStepN(GenStep(x), n - 1)

\* The j-th next number (j >= 1), as its level in 0 .. RandLevels - 1.
GenWord(st, j) == (GenStepN(st.x, j) * RandLevels) \div GenPeriod

\* np.random.random(n): the next n magnitudes, each in [0, 1).
random(st, n) == [j \in 1..n |-> FDiv(Float(GenWord(st, j)), Float(RandLevels))]

GenAdvance(st, n) == [x |-> GenStepN(st.x, n), drawn |-> st.drawn + n]

\* np.random.seed(s): the state derived from the seed, nothing drawn yet.
SeedState(s) == [x |-> (7 * s + 4) % GenPeriod, drawn |-> 0]

\* The states of a generator nothing was drawn from.
GenStates == [x : 0..(GenPeriod - 1), drawn : {0}]

\* weights /= np.sum(weights)
Normalize(w) == LET total == FSum(w) IN [j \in 1..Len(w) |-> FDiv(w[j], total)]

\* np.zeros((rows, cols))
zeros(rows, cols) == [r \in 1..rows |-> [c \in 1..cols |-> Zero]]

\* (mutant of range: the loop runs once more, `range(n + 1)`)
range_inclusive(n) == 0..n

\* range(n), as the set of indices the loop visits
range(n) == 0..(n - 1)

\* (mutant of StoreColumn: every trial written to column 0, `results[0, 0] = mean`)
StoreColumnFirst(res, ix, triple) ==
    [r \in 1..Len(res) |-> [res[r] EXCEPT ![1] = triple[r]]]

\* results[0, ix] = mean; results[1, ix] = vol; results[2, ix] = sharpe
StoreColumn(res, ix, triple) ==
    [r \in 1..Len(res) |-> [res[r] EXCEPT ![ix + 1] = triple[r]]]

\* ------------------------------------------------------------------ optimizer
\* tuple((0,1) for _ in range(num_assets)) and num_assets * [1./num_assets]
Bounds(num_assets) == [j \in 1..num_assets |-> <<Float(0), Float(1)>>]
\* 1./num_assets is Python float division: it raises for num_assets = 0.
ZeroDivisionError == "ZeroDivisionError"

InitialGuess(num_assets) ==
    IF num_assets = 0 THEN ZeroDivisionError
    ELSE [j \in 1..num_assets |-> FDiv(Float(1), Float(num_assets))]

\* lambda x: np.sum(x) - 1
EqConstraint(x) == FSub(FSum(x), Float(1))

\* Exit modes of SLSQP: 0 converged, 8 positive directional derivative in the
\* line search, 9 iteration limit reached.
SolverStatus == {0, 8, 9}

\* The points a solve may stop at: coordinates on a grid inside the bounds.
GridPoints(num_assets) ==
    {[j \in 1..num_assets |-> FDiv(Float(kk[j]), Float(SolverGrid))] :
        kk \in [1..num_assets -> 0..SolverGrid]}

\* What minimize(..., method='SLSQP', bounds, constraints) hands back.  The
\* solve evaluates the objective at the initial guess first.  A converged
\* solve (status 0) stops at a point meeting the constraint; any other exit
\* stops at some point inside the bounds.
MinimizeResults(rets) ==
    LET n == Len(rets) IN
    {[x |-> x, fun |-> neg_sharpe(x, rets), status |-> st, success |-> (st = 0)] :
        <<x, st>> \in {q \in GridPoints(n) \X SolverStatus :
                            q[2] = 0 => EqConstraint(q[1]) = Zero}}

\* ------------------------------------------------------------------ inputs
F(ints) == [t \in 1..Len(ints) |-> Float(ints[t])]

\* Return tables of the sampling pass.
SimTables ==
    { << F(<<1, -1>>) >>,
      << F(<<1>>), F(<<0>>) >>,
      << F(<<1, 2, 0>>), F(<<0, 0, 0>>) >>,
      << F(<<-2, -1, 1>>), F(<<1, 0, -2>>) >> }

\* Return tables handed to portfolio_performance: every table of one or two
\* of these columns of equal length.
PerfColumns ==
    { F(<<1>>), F(<<0>>), F(<<-1>>),
      F(<<1, -1>>), F(<<0, 0>>), F(<<1, 2>>),
      F(<<-2, -1, 1>>), F(<<1, 0, -2>>), F(<<0, 0, 0>>),
      F(<<1, 1, 1>>), F(<<1, -1, 0>>), F(<<2, 0, -1>>),
      F(<<-3, 2, 2>>), F(<<2, -3, -3>>) }

PerfTables ==
    {<<a>> : a \in PerfColumns}
    \cup {<<a, b>> : <<a, b>> \in {q \in PerfColumns \X PerfColumns : Len(q[1]) = Len(q[2])}}

\* Weight vectors on the simplex: k / WeightGrid with the k summing to WeightGrid.
RECURSIVE NatSum(_)
NatSum(v) == IF v = <<>> THEN 0 ELSE v[Len(v)] + NatSum(SubSeq(v, 1, Len(v) - 1))

SimplexWeights(n) ==
    {[j \in 1..n |-> FDiv(Float(kk[j]), Float(WeightGrid))] :
        kk \in {q \in [1..n -> 0..WeightGrid] : NatSum(q) = WeightGrid}}

\* Price tables of the main flow (stored as log prices).
PriceTables ==
    { << <<0, 1>> >>,
      << <<0, 1, 0>> >>,
      << <<1, 1, 1>> >>,
      << <<0, 1>>, <<1, 1>> >>,
      << <<0, 1, 1>>, <<0, 0, 1>> >>,
      << <<0, 1, 3>>, <<1, 1, 0>> >> }

\* ------------------------------------------------------------------ state
VARIABLES
    pc,              \* position of the flow being followed
    data,            \* the price table (main flow)
    log_returns,     \* the return table every function is handed as `returns`
    weights,         \* argument of a lone portfolio_performance call
    perf,            \* its result
    np_random,       \* state of the global generator np.random
    seed,            \* the seed last given to np.random.seed, -1 for none
    num_portfolios,  \* argument of simulate_portfolios
    i,               \* loop index of simulate_portfolios
    weights_record,  \* list of sampled weight vectors
    results,         \* 3 x num_portfolios array of (mean, vol, sharpe)
    runs,            \* completed sampler runs: seed, trial count, output
    objective_calls, \* values neg_sharpe returned to the solver, in order
    optimal,         \* the result of optimize_portfolio
    report           \* what the main flow prints as the optimal portfolio

vars == <<pc, data, log_returns, weights, perf, np_random, seed, num_portfolios, i,
          weights_record, results, runs, objective_calls, optimal, report>>

simVars == <<num_portfolios, i, weights_record, results>>
mainVars == <<data, objective_calls, optimal, report>>
perfVars == <<weights, perf>>

NoResult == [x |-> <<>>, fun |-> Zero, status |-> -1, success |-> FALSE]

\* The parts of the state a flow does not touch.
NoSim == num_portfolios = 0 /\ i = 0 /\ weights_record = <<>> /\ results = <<>>
NoMain == data = <<>> /\ objective_calls = <<>> /\ optimal = NoResult /\ report = <<>>
NoPerf == weights = <<>> /\ perf = <<>>
NoGen == np_random = SeedState(0) /\ seed = -1 /\ runs = <<>>

\* ------------------------------------------------------ simulate_portfolios
\* Entry: results = np.zeros((3, num_portfolios)); weights_record = []
SimCall(n) ==
    /\ pc = "ready"
    /\ num_portfolios' = n
    /\ results' = zeros(3, n)
    /\ weights_record' = <<>>
    /\ i' = 0
    /\ pc' = "loop"
    /\ UNCHANGED <<log_returns, np_random, seed, runs, perfVars, mainVars>>

\* One pass of the loop body.  (\E v \in {e} binds v to the value of e.)
SimIter ==
    /\ pc = "loop"
    /\ i \in range(num_portfolios)
    /\ \E w \in {Normalize(random(np_random, Len(log_returns)))} :
       \E triple \in {portfolio_performance(w, log_returns)} :
           /\ weights_record' = Append(weights_record, w)
           /\ results' = StoreColumn(results, i, triple)
    /\ np_random' = GenAdvance(np_random, Len(log_returns))
    /\ i' = i + 1
    /\ UNCHANGED <<pc, log_returns, seed, num_portfolios, runs, perfVars, mainVars>>

\* return np.array(weights_record), results
SimReturn ==
    /\ pc = "loop"
    /\ i \notin range(num_portfolios)
    /\ pc' = "returned"
    /\ UNCHANGED <<log_returns, np_random, seed, simVars, runs, perfVars, mainVars>>

\* The sampling pass on its own: any return table, and a generator that was
\* never seeded (any key, nothing drawn yet).
Init ==
    /\ pc = "ready"
    /\ log_returns \in SimTables
    /\ np_random \in GenStates
    /\ seed = -1 /\ runs = <<>>
    /\ NoSim /\ NoPerf /\ NoMain

Next ==
    \/ \E n \in 0..MaxTrials : SimCall(n)
    \/ SimIter
    \/ SimReturn

Spec == Init /\ [][Next]_vars

\* ------------------------------------------------- seeded runs of the sampler
\* np.random.seed(s) by the caller before a run.
Reseed(s) ==
    /\ pc = "idle"
    /\ Len(runs) < MaxRuns
    /\ np_random' = SeedState(s)
    /\ seed' = s
    /\ pc' = "ready"
    /\ UNCHANGED <<log_returns, simVars, runs, perfVars, mainVars>>

\* Other code draws one number from np.random between the seeding and the run.
AmbientDraw ==
    /\ pc = "ready"
    /\ np_random.drawn < MaxAmbient
    /\ np_random' = GenAdvance(np_random, 1)
    /\ UNCHANGED <<pc, log_returns, seed, simVars, runs, perfVars, mainVars>>

\* The caller keeps what the run returned.
Archive ==
    /\ pc = "returned"
    /\ runs' = Append(runs, [seed |-> seed, trials |-> num_portfolios,
                             weights_record |-> weights_record, results |-> results])
    /\ pc' = "idle"
    /\ UNCHANGED <<log_returns, np_random, seed, simVars, perfVars, mainVars>>

\* Tables of two assets: with one asset every finite draw normalizes to [1.0].
SeedInit ==
    /\ pc = "idle"
    /\ log_returns \in {t \in SimTables : Len(t) = 2}
    /\ np_random \in GenStates
    /\ seed = -1 /\ runs = <<>>
    /\ NoSim /\ NoPerf /\ NoMain

SeedNext ==
    \/ \E s \in 0..MaxSeed : Reseed(s)
    \/ AmbientDraw
    \/ \E n \in 0..MaxTrials : SimCall(n)
    \/ SimIter
    \/ SimReturn
    \/ Archive

SeedSpec == SeedInit /\ [][SeedNext]_vars

\* ------------------------------------------------ portfolio_performance alone
Evaluate ==
    /\ pc = "perf_call"
    /\ perf' = portfolio_performance(weights, log_returns)
    /\ pc' = "perf_done"
    /\ UNCHANGED <<log_returns, weights, np_random, seed, simVars, runs, mainVars>>

PerfInit ==
    /\ pc = "perf_call"
    /\ log_returns \in PerfTables
    /\ weights \in SimplexWeights(Len(log_returns))
    /\ perf = <<>>
    /\ NoGen /\ NoSim /\ NoMain

PerfNext == Evaluate

PerfSpec == PerfInit /\ [][PerfNext]_vars

\* ------------------------------------------------------------------ main flow
\* The main flow up to the printed optimum: log returns, the sampling pass
\* (SimCall, SimIter, SimReturn above), the optimizer, the report.
\* log_returns = compute_log_returns(data)
MainLogReturns ==
    /\ pc = "main"
    /\ log_returns' = compute_log_returns(data)
    /\ pc' = "ready"
    /\ UNCHANGED <<data, objective_calls, optimal, report, np_random, seed, simVars,
                   runs, perfVars>>

\* simulate_portfolios(log_returns): num_portfolios takes its default
\* NUM_PORTFOLIOS, cut to MaxTrials passes of the loop.
DefaultTrials == IF NUM_PORTFOLIOS < MaxTrials THEN NUM_PORTFOLIOS ELSE MaxTrials

MainSimulate == SimCall(DefaultTrials)

\* optimal = optimize_portfolio(log_returns).  The initial guess is built
\* before the solve; the solve evaluates the objective at it first.
MainOptimize ==
    /\ pc = "returned"
    /\ \E num_assets \in {Len(log_returns)} :
         IF num_assets = 0          \* InitialGuess raises ZeroDivisionError
         THEN /\ pc' = "raised"
              /\ UNCHANGED <<optimal, objective_calls>>
         ELSE /\ \E guess \in {InitialGuess(num_assets)} :
                 \E opt \in MinimizeResults(log_returns) :
                 \E f0 \in {neg_sharpe(guess, log_returns)} :
                   /\ optimal' = opt
                   /\ objective_calls' = <<f0, opt.fun>>
              /\ pc' = "main_optimized"
    /\ UNCHANGED <<data, log_returns, report, np_random, seed, simVars, runs, perfVars>>

\* optimal_mean, optimal_vol, optimal_sharpe = portfolio_performance(optimal.x, ...)
\* and the four print calls: the weights go out as the optimal ones, whatever
\* optimal.status and optimal.success say.
MainReport ==
    /\ pc = "main_optimized"
    /\ \E triple \in {portfolio_performance(optimal.x, log_returns)} :
         report' = [label |-> "Optimal Portfolio Weights", x |-> optimal.x,
                    perf |-> triple]
    /\ pc' = "main_reported"
    /\ UNCHANGED <<data, log_returns, objective_calls, optimal, np_random, seed,
                   simVars, runs, perfVars>>

\* The program never seeds np.random: the generator of the main flow starts
\* in any state.
MainInit ==
    /\ pc = "main"
    /\ data \in PriceTables
    /\ log_returns = <<>>
    /\ objective_calls = <<>> /\ optimal = NoResult /\ report = <<>>
    /\ np_random \in GenStates
    /\ seed = -1 /\ runs = <<>>
    /\ NoSim /\ NoPerf

MainNext ==
    \/ MainLogReturns
    \/ MainSimulate
    \/ SimIter
    \/ SimReturn
    \/ MainOptimize
    \/ MainReport

MainSpec == MainInit /\ [][MainNext]_vars

\* ==================================================================== claims
One == Float(1)

\* Eight units in the last place of 1.0: the tolerance of "sums to 1".
SumTol == Round(1, 3 - Prec)

Feasible(w) ==
    /\ \A j \in 1..Len(w) : FLe(Zero, w[j]) /\ FLe(w[j], One)
    /\ \E total \in {FSum(w)} :
         FLe(FSub(total, One), SumTol) /\ FLe(FSub(One, total), SumTol)

Column(res, t) == <<res[1][t], res[2][t], res[3][t]>>

\* C1: every weight vector simulate_portfolios records has all its elements
\* in [0, 1] and sums to 1 (within rounding), whatever the generator drew,
\* all magnitudes of a trial being 0 included.
C1_RecordedWeightsFeasible ==
    \A t \in 1..Len(weights_record) : Feasible(weights_record[t])

\* C2: when portfolio_performance finds a volatility of exactly 0, the Sharpe
\* ratio it returns is not an infinity and not NaN handed back as a number.
C2_ZeroVolatilitySignalled ==
    (pc = "perf_done" /\ perf[2] = Zero) => perf[3].k \notin {"inf", "nan"}

\* C4: the main flow reports the weights as the optimal portfolio only when
\* the solver's flag says it converged.
C4_ReportedOnlyIfConverged ==
    pc = "main_reported" => optimal.success

\* C5: two runs of simulate_portfolios made with the same seed and the same
\* trial count return the same weight vectors and the same triples, whatever
\* else drew from np.random in between.
C5_SameSeedSameSample ==
    \A a \in 1..Len(runs) : \A b \in 1..Len(runs) :
        (runs[a].seed = runs[b].seed /\ runs[a].trials = runs[b].trials)
            => /\ runs[a].weights_record = runs[b].weights_record
               /\ runs[a].results = runs[b].results

\* C6: simulate_portfolios called with 0 trials returns no weight vector and
\* no triple (three rows of no columns).
C6_ZeroTrialsEmpty ==
    (pc = "returned" /\ num_portfolios = 0)
        => (weights_record = <<>> /\ results = <<<<>>, <<>>, <<>>>>)

C6_Witness == pc = "returned" /\ num_portfolios = 0 /\ Len(log_returns) = 2

\* C7: with a return table of one row, no value neg_sharpe hands to the
\* solver is NaN, and the volatility reported for the result is 0.
C7_OneRowNoNaNObjective ==
    (NumRows(log_returns) = 1 /\ pc \in {"main_optimized", "main_reported"})
        => /\ \A c \in 1..Len(objective_calls) : ~IsNaN(objective_calls[c])
           /\ pc = "main_reported" => report.perf[2] = Zero

\* C9: for a weight vector on the simplex and a return table of two or more
\* rows, the volatility portfolio_performance returns is a number >= 0.
C9_VolatilityDefined ==
    (pc = "perf_done" /\ NumRows(log_returns) >= 2)
        => (~IsNaN(perf[2]) /\ FLe(Zero, perf[2]))

\* C10: during and after a run with trial count n, one weight vector is
\* recorded per finished trial (n at the return), results keeps n columns,
\* and column t is portfolio_performance of the t-th recorded (normalized)
\* vector: no trial writes the column of another.
C10_ColumnsMatchWeights ==
    /\ Len(weights_record) = i
    /\ pc = "returned" => i = num_portfolios
    /\ pc \in {"loop", "returned"} =>
          (Len(results) = 3 /\ \A r \in 1..3 : Len(results[r]) = num_portfolios)
    /\ \A t \in 1..Len(weights_record) :
          \E w \in {weights_record[t]} :
             Column(results, t) = portfolio_performance(w, log_returns)

C10_Witness ==
    /\ pc = "returned"
    /\ num_portfolios >= 2
    /\ weights_record[1] # weights_record[2]
    /\ Column(results, 1) # Column(results, 2)
    /\ ~IsNaN(results[3][2])
====
